---- MODULE Spec2Model ----
(***************************************************************************)
(* Persistence-and-sync core of the stock-management inventory tracker     *)
(* (docs/assets/js/app.js): the in-memory collection, its localStorage     *)
(* copy, the retrying fetch and the cloud sync built on it.                *)
(*                                                                         *)
(* Every event handler of app.js runs to completion (single-threaded      *)
(* event loop), so each handler is one action.  The suspension points of   *)
(* the async functions (await fetch, await setTimeout, await json()) split *)
(* fetchWithRetry / syncWithCloud into several actions.                    *)
(***************************************************************************)
EXTENDS Integers, Sequences, FiniteSets, TLC

(***************************************************************************)
(* Program constants                                                       *)
(***************************************************************************)
MAX_LOCALSTORAGE_SIZE == 5 * 1024 * 1024
MAX_RETRIES == 3
STORAGE_KEY == "stockInventory"

(***************************************************************************)
(* Bounds of the model                                                     *)
(***************************************************************************)
\* longest collection the model builds
MaxItems == 2
\* largest quantity an increment may produce
MaxQty == 2
\* most setItem calls that fail in one session
MaxWriteFailures == 1
\* largest maxRetries argument tried on fetchWithRetry
MaxAttempts == 7

(***************************************************************************)
(* Values                                                                  *)
(***************************************************************************)
\* JavaScript null for the image field (JSON.stringify prints it as null)
Null == "null"
\* a missing / falsy string field of an imported object
Absent == ""

\* results of generateId(): Date.now() and Math.random() are read from the
\* environment, nothing in the code compares the result with existing ids
GenIds == {"mh3k2a9x0q1z7", "mh3k2a9x4c8ve"}
\* results of new Date().toISOString()
Times == {"2026-01-05T10:00:00.000Z"}
Names == {"bolt"}

\* Math.max
Max(a, b) == IF a >= b THEN a ELSE b
Min(a, b) == IF a <= b THEN a ELSE b

RECURSIVE Pow2(_)
Pow2(n) == IF n = 0 THEN 1 ELSE 2 * Pow2(n - 1)

RECURSIVE Digits(_)
\* number of characters of a non-negative integer printed in decimal
Digits(n) == IF n < 10 THEN 1 ELSE 1 + Digits(n \div 10)

\* number of characters JSON.stringify prints for an integer
NumLen(n) == IF n < 0 THEN 1 + Digits(-n) ELSE Digits(n)

(***************************************************************************)
(* JSON documents.  A text is modelled by what JSON.parse makes of it:     *)
(* "array" (of item objects, each a tuple of its field values in print     *)
(* order), "other" (valid JSON that is no array) or "corrupt" (parse       *)
(* throws).  localStorage.getItem() of a missing key is "absent".          *)
(***************************************************************************)
Doc(kind, elems) == [kind |-> kind, elems |-> elems]
AbsentDoc == Doc("absent", <<>>)
CorruptDoc == Doc("corrupt", <<>>)
OtherDoc == Doc("other", <<>>)

\* JSON.stringify of one item object
StringifyItem(it) == <<it.id, it.name, it.quantity, it.image, it.createdAt>>

\* JSON.stringify(inventory)
Stringify(inv) == Doc("array", [i \in 1..Len(inv) |-> StringifyItem(inv[i])])

ParseItem(t) ==
    [id |-> t[1], name |-> t[2], quantity |-> t[3], image |-> t[4], createdAt |-> t[5]]

\* JSON.parse of an array text
ParseArray(doc) == [i \in 1..Len(doc.elems) |-> ParseItem(doc.elems[i])]

\* characters of the text JSON.stringify prints for one item:
\* {"id":"..","name":"..","quantity":N,"image":null|"..","createdAt":".."}
ItemChars(t) ==
    7 + Len(t[1]) + 10 + Len(t[2]) + 13 + NumLen(t[3]) + 9
      + (IF t[4] = Null THEN 4 ELSE Len(t[4]) + 2) + 14 + Len(t[5]) + 2

RECURSIVE SumChars(_)
SumChars(elems) ==
    IF elems = <<>> THEN 0 ELSE ItemChars(Head(elems)) + SumChars(Tail(elems))

\* value.length of a stored array text: brackets, items, separating commas
\* (a text that does not parse is taken to be the one character "{")
DocChars(doc) ==
    IF doc.kind = "array"
    THEN 2 + SumChars(doc.elems) + Max(0, Len(doc.elems) - 1)
    ELSE 1

(***************************************************************************)
(* State                                                                   *)
(***************************************************************************)
VARIABLES
    phase,             \* "boot" before DOMContentLoaded, then "running"
    inventory,         \* let inventory = []
    storageAvailable,  \* let storageAvailable = false
    blob,              \* localStorage[STORAGE_KEY]
    others,            \* characters (keys + values) of the other localStorage keys
    writeFailures,     \* setItem calls that have thrown so far
    pendingImport,     \* parsed file waiting in the import confirmation modal
    lastOp,            \* the handler that ran last, with its arguments
    out,               \* storage writes and UI notifications of that handler
    fetchSt,           \* the fetchWithRetry call: its locals and where it is suspended
    fetchLog,          \* requests, their outcomes and backoff waits of that call
    syncSt,            \* the syncWithCloud call: where it is suspended, the body it sends
    sent,              \* the request bodies that call has put on the wire, in order
    exportFile         \* the file the last export downloaded

storeVars == <<phase, inventory, storageAvailable, blob, others, writeFailures, pendingImport,
               exportFile>>
fetchVars == <<fetchSt, fetchLog>>
vars == <<phase, inventory, storageAvailable, blob, others, writeFailures, pendingImport,
          lastOp, out,
          fetchSt, fetchLog, syncSt, sent, exportFile>>

(***************************************************************************)
(* Notifications and storage writes a handler performs, in call order.     *)
(* An event is <<sink, kind, message>>; a message is its text in parts.    *)
(***************************************************************************)
SetItem(res) == <<"setItem", res, <<>>>>
Status(ok, msg) == <<"status", IF ok THEN "available" ELSE "unavailable", <<msg>>>>
Toast(type, parts) == <<"toast", type, parts>>
Confirm(title, parts) == <<"confirm", title, parts>>

Op(op, id, delta, found, old) ==
    [op |-> op, id |-> id, delta |-> delta, found |-> found, old |-> old]

(***************************************************************************)
(* Capacity monitor                                                        *)
(***************************************************************************)
\* getStorageInfo().used: 2 bytes per character of every key and value
Used(avail, b, oth) ==
    IF ~avail THEN 0
    ELSE (oth + (IF b.kind = "absent" THEN 0
                 ELSE Len(STORAGE_KEY) + DocChars(b))) * 2

\* (mutant) the warning starts at 85 % itself
AboveThresholdInclusive(avail, b, oth) == Used(avail, b, oth) * 100 >= 85 * MAX_LOCALSTORAGE_SIZE

\* info.percentage > 85, with percentage = used / MAX_LOCALSTORAGE_SIZE * 100
\* (the quotient is a double; for the even byte counts below twice the
\* ceiling the comparison agrees with the one on integers)
AboveThreshold(avail, b, oth) == Used(avail, b, oth) * 100 > 85 * MAX_LOCALSTORAGE_SIZE

\* updateStorageInfo(): the notifications it sends
UpdateStorageInfo(avail, b, oth) ==
    IF avail /\ AboveThreshold(avail, b, oth)
    THEN << Toast("warning",
              <<"Warning: Running low on storage space. Consider exporting and clearing data.">>) >>
    ELSE <<>>

(***************************************************************************)
(* Durable store adapter                                                   *)
(***************************************************************************)
\* outcomes of localStorage.setItem: stored, QuotaExceededError, another error
WriteResults == {"ok", "quota", "error"}

\* (mutant) the collection is saved before the handler changes it
saveInventoryStale(inv, w) ==
    /\ IF storageAvailable THEN w = "ok" \/ writeFailures < MaxWriteFailures ELSE w = "ok"
    /\ blob' = IF storageAvailable /\ w = "ok" THEN Stringify(inventory) ELSE blob
    /\ writeFailures' = IF storageAvailable /\ w # "ok" THEN writeFailures + 1 ELSE writeFailures

\* (mutant) the write is made whether or not the probe succeeded
saveInventoryUnguarded(inv, w) ==
    /\ w = "ok" \/ writeFailures < MaxWriteFailures
    /\ blob' = IF w = "ok" THEN Stringify(inv) ELSE blob
    /\ writeFailures' = IF w # "ok" THEN writeFailures + 1 ELSE writeFailures

\* saveInventory(): the store afterwards, for the collection inv and the
\* outcome w of the one setItem call (none is made without storage)
saveInventory(inv, w) ==
    /\ IF storageAvailable THEN w = "ok" \/ writeFailures < MaxWriteFailures ELSE w = "ok"
    /\ blob' = IF storageAvailable /\ w = "ok" THEN Stringify(inv) ELSE blob
    /\ writeFailures' = IF storageAvailable /\ w # "ok" THEN writeFailures + 1 ELSE writeFailures

\* (mutant) an error that is no quota error is swallowed
SaveOutSilent(inv, w) ==
    IF ~storageAvailable THEN <<>>
    ELSE IF w = "ok"
         THEN <<SetItem("ok"), Status(TRUE, "Data saved")>>
                \o UpdateStorageInfo(TRUE, Stringify(inv), others)
    ELSE IF w = "quota"
         THEN <<SetItem("quota"),
                Status(FALSE, "Storage quota exceeded"),
                Toast("error", <<"Storage quota exceeded. Try removing some items or images.">>)>>
    ELSE <<SetItem("error")>>

\* saveInventory(): its writes and notifications
SaveOut(inv, w) ==
    IF ~storageAvailable THEN <<>>
    ELSE IF w = "ok"
         THEN <<SetItem("ok"), Status(TRUE, "Data saved")>>
                \o UpdateStorageInfo(TRUE, Stringify(inv), others)
    ELSE IF w = "quota"
         THEN <<SetItem("quota"),
                Status(FALSE, "Storage quota exceeded"),
                Toast("error", <<"Storage quota exceeded. Try removing some items or images.">>)>>
    ELSE <<SetItem("error"), Status(FALSE, "Error saving data")>>

(***************************************************************************)
(* Retryable fetch                                                         *)
(***************************************************************************)
\* a response body as response.json() decodes it: not JSON at all (valid
\* FALSE), or an object whose success field is true, false or absent and
\* whose message is a text or "" (absent or empty, both falsy)
Body(valid, success, message) == [valid |-> valid, success |-> success, message |-> message]
NoBody == Body(FALSE, "absent", "")
Bodies ==
    {NoBody} \cup { Body(TRUE, s, m) : s \in {"true", "false", "absent"},
                                       m \in {"", "Inventory rejected"} }

\* what one fetch() call settles to: a response with a status and a body, or
\* a rejection (status 0) with the message of the thrown error
FetchOutcome(status, thrown, body) == [status |-> status, thrown |-> thrown, body |-> body]
FetchOutcomes ==
    { FetchOutcome(200, <<>>, b) : b \in Bodies }
        \cup { FetchOutcome(500, <<>>, NoBody), FetchOutcome(0, <<"Failed to fetch">>, NoBody) }

\* response.ok
ResponseOk(status) == status >= 200 /\ status <= 299

\* error.message of what the try block threw for a request that settled as o
AttemptError(o) ==
    IF o.thrown # <<>> THEN o.thrown ELSE <<"HTTP error! Status: ", ToString(o.status)>>

\* (mutant) the delay is not capped
BackoffDelayUncapped(attempt) == Pow2(attempt) * 100

\* (mutant) the exponent is the number of the attempt to come
BackoffDelayNextAttempt(attempt) == Min(Pow2(attempt + 1) * 100, 2000)

\* Math.min(Math.pow(2, attempt) * 100, 2000)
BackoffDelay(attempt) == Min(Pow2(attempt) * 100, 2000)

\* message of the error thrown after the loop
ExhaustedError(maxRetries, lastError) ==
    <<"Failed after ", ToString(maxRetries), " attempts: ">>
        \o (IF lastError # <<>> THEN lastError ELSE <<"Unknown error">>)

FetchState(pc, maxRetries, attempt, lastError, response, error) ==
    [pc |-> pc, maxRetries |-> maxRetries, attempt |-> attempt, lastError |-> lastError,
     response |-> response, error |-> error]
NoResponse == FetchOutcome(0, <<>>, NoBody)
NoFetch == FetchState("none", 0, 0, <<>>, NoResponse, <<>>)

LogEvent(e, n, msg) == [e |-> e, n |-> n, msg |-> msg]

\* a fetchWithRetry call: its state and its log
Call(st, log) == [st |-> st, log |-> log]

\* fetchWithRetry(url, options, maxRetries) up to its first suspension: the
\* first request is issued, or the loop is skipped and the call throws
FetchStart(maxRetries) ==
    IF 0 < maxRetries
    THEN Call(FetchState("fetch", maxRetries, 0, <<>>, NoResponse, <<>>),
              <<LogEvent("request", 0, <<>>)>>)
    ELSE Call(FetchState("thrown", maxRetries, 0, <<>>, NoResponse,
                         ExhaustedError(maxRetries, <<>>)),
              <<>>)

\* the awaited fetch() settles as o: return the response, or catch the error,
\* remember it and start the backoff timer
FetchSettled(st, log, o) ==
    IF o.thrown = <<>> /\ ResponseOk(o.status)
    THEN Call([st EXCEPT !.pc = "returned", !.response = o],
              Append(log, LogEvent("settle", o.status, <<>>)))
    ELSE Call([st EXCEPT !.pc = "delay", !.lastError = AttemptError(o)],
              log \o <<LogEvent("settle", o.status, AttemptError(o)),
                       LogEvent("wait", BackoffDelay(st.attempt), <<>>)>>)

\* (mutant) the loop runs while attempt <= maxRetries
FetchResumedOneMore(st, log) ==
    IF st.attempt + 1 <= st.maxRetries
    THEN Call([st EXCEPT !.pc = "fetch", !.attempt = st.attempt + 1],
              Append(log, LogEvent("request", st.attempt + 1, <<>>)))
    ELSE Call([st EXCEPT !.pc = "thrown", !.attempt = st.attempt + 1,
                         !.error = ExhaustedError(st.maxRetries, st.lastError)],
              log)

\* the backoff timer fires: attempt++, then the next request or, when the
\* loop condition fails, the throw after the loop
FetchResumed(st, log) ==
    IF st.attempt + 1 < st.maxRetries
    THEN Call([st EXCEPT !.pc = "fetch", !.attempt = st.attempt + 1],
              Append(log, LogEvent("request", st.attempt + 1, <<>>)))
    ELSE Call([st EXCEPT !.pc = "thrown", !.attempt = st.attempt + 1,
                         !.error = ExhaustedError(st.maxRetries, st.lastError)],
              log)

SyncState(pc, body) == [pc |-> pc, body |-> body]
SyncIdle == SyncState("idle", AbsentDoc)

\* what a stored text that is valid JSON but no array parses to: null, an
\* object, a number or a boolean (a stored string is left out)
NonArray == [kind |-> "other"]

\* stored texts a session may start from
InitBlobs ==
    { AbsentDoc, CorruptDoc, OtherDoc,
      Stringify(<<>>),
      Stringify(<< [id |-> "mh3k2a9x0q1z7", name |-> "bolt", quantity |-> 1,
                    image |-> Null, createdAt |-> "2026-01-05T10:00:00.000Z"] >>) }

\* characters held by other keys of the same origin: none; enough to leave
\* room for the key and an empty array below the 85 % mark, not for an item;
\* enough to put the key and an empty array at 85 % exactly; enough to put
\* the key and the one stored item above at 4.5 MiB exactly
OtherChars == {0, 2228200, 2228208, 2359179}

Init ==
    /\ phase = "boot"
    /\ inventory = <<>>
    /\ storageAvailable = FALSE
    /\ blob \in InitBlobs
    /\ others \in OtherChars
    /\ writeFailures = 0
    /\ pendingImport = AbsentDoc
    /\ lastOp = Op("none", "", 0, FALSE, 0)
    /\ out = <<>>
    /\ fetchSt = NoFetch
    /\ fetchLog = <<>>
    /\ syncSt = SyncIdle
    /\ sent = <<>>
    /\ exportFile = AbsentDoc

\* updateInventoryDisplay() at the end of loadInventory throws a TypeError
\* when inventory is no array: null has no length, an object or a number
\* cannot be spread.  Nothing catches it.
DisplayThrows(probe, b) == probe /\ b.kind = "other"

\* DOMContentLoaded: loadInventory(), setupEventListeners(), updateStorageInfo().
\* probe is the result of checkStorageAvailability() (its write+remove cycle
\* threw or not).  When loadInventory throws, the handler ends there: no
\* listener is registered and the page takes no event for the rest of the
\* session.
Startup(probe) ==
    /\ phase = "boot"
    /\ phase' = IF DisplayThrows(probe, blob) THEN "crashed" ELSE "running"
    /\ storageAvailable' = probe
    /\ inventory' = IF probe /\ blob.kind = "array" THEN ParseArray(blob)
                    ELSE IF probe /\ blob.kind = "other" THEN NonArray
                    ELSE inventory
    /\ out' = (IF ~probe THEN <<Status(FALSE, "Storage unavailable - data will not be saved between sessions")>>
               ELSE IF blob.kind = "corrupt" THEN <<Status(FALSE, "Error loading data")>>
               ELSE <<Status(TRUE, "Data will be saved automatically")>>)
              \o (IF DisplayThrows(probe, blob) THEN <<>>
                  ELSE UpdateStorageInfo(probe, blob, others))
    /\ lastOp' = Op("load", "", 0, probe, 0)
    /\ UNCHANGED <<blob, others, writeFailures, pendingImport, fetchSt, fetchLog, syncSt, sent, exportFile>>

\* index of the first item with this id, 0 when there is none
\* (inventory.findIndex(item => item.id === id), -1 when there is none)
FindIndex(inv, id) ==
    IF \E i \in 1..Len(inv) : inv[i].id = id
    THEN CHOOSE i \in 1..Len(inv) : inv[i].id = id /\ \A j \in 1..(i - 1) : inv[j].id # id
    ELSE 0

\* (mutant) inventory = inventory.filter(item => item.id !== id)
SpliceAllWithId(inv, index) == SelectSeq(inv, LAMBDA it : it.id # inv[index].id)

\* inventory.splice(index, 1)
Splice(inv, index) == [i \in 1..(Len(inv) - 1) |-> IF i < index THEN inv[i] ELSE inv[i + 1]]

\* the submit handler of the add form once processImage has resolved:
\* name is the trimmed name, quantity the parsed integer, id and createdAt the
\* values generateId() and new Date().toISOString() return
Add(name, quantity, image, id, createdAt, w) ==
    /\ phase = "running"
    /\ name # ""
    /\ Len(inventory) < MaxItems
    /\ LET newItem == [id |-> id, name |-> name, quantity |-> quantity,
                       image |-> image, createdAt |-> createdAt]
           inv == Append(inventory, newItem)
       IN /\ inventory' = inv
          /\ saveInventory(inv, w)
          /\ out' = SaveOut(inv, w) \o <<Toast("success", <<"Item added successfully">>)>>
    /\ lastOp' = Op("add", id, quantity, TRUE, 0)
    /\ UNCHANGED <<phase, storageAvailable, others, pendingImport, fetchSt, fetchLog, syncSt, sent, exportFile>>

\* the submit handler when the name is empty or parseInt gave NaN: early return
AddInvalid ==
    /\ phase = "running"
    /\ out' = <<>>
    /\ lastOp' = Op("addInvalid", "", 0, FALSE, 0)
    /\ UNCHANGED <<phase, inventory, storageAvailable, blob, others, writeFailures, pendingImport, fetchSt, fetchLog, syncSt, sent, exportFile>>

\* the submit handler when processImage rejects (not an image, unreadable file)
AddImageError(reason) ==
    /\ phase = "running"
    /\ out' = <<Toast("error", <<"Error adding item: ", reason>>)>>
    /\ lastOp' = Op("addImageError", "", 0, FALSE, 0)
    /\ UNCHANGED <<phase, inventory, storageAvailable, blob, others, writeFailures, pendingImport, fetchSt, fetchLog, syncSt, sent, exportFile>>

\* (mutant) the sum is stored without the clamp
NewQuantityUnclamped(current, change) == current + change

\* Math.max(0, inventory[index].quantity + change)
NewQuantity(current, change) == Max(0, current + change)

\* updateItemQuantity(id, change)
updateItemQuantity(id, change, w) ==
    /\ phase = "running"
    /\ LET index == FindIndex(inventory, id)
       IN IF index # 0
          THEN LET newQuantity == NewQuantity(inventory[index].quantity, change)
                   inv == [inventory EXCEPT ![index].quantity = newQuantity]
               IN /\ (change > 0 => newQuantity <= MaxQty)
                  /\ inventory' = inv
                  /\ saveInventory(inv, w)
                  /\ out' = SaveOut(inv, w)
                  /\ lastOp' = Op("adjust", id, change, TRUE, inventory[index].quantity)
          ELSE /\ UNCHANGED <<inventory, blob, writeFailures>>
               /\ out' = <<>>
               /\ lastOp' = Op("adjust", id, change, FALSE, 0)
    /\ UNCHANGED <<phase, storageAvailable, others, pendingImport, fetchSt, fetchLog, syncSt, sent, exportFile>>

\* deleteItem(id)
deleteItem(id, w) ==
    /\ phase = "running"
    /\ LET index == FindIndex(inventory, id)
       IN IF index # 0
          THEN LET inv == Splice(inventory, index)
               IN /\ inventory' = inv
                  /\ saveInventory(inv, w)
                  /\ out' = SaveOut(inv, w) \o <<Toast("info", <<"Item deleted">>)>>
                  /\ lastOp' = Op("remove", id, 0, TRUE, 0)
          ELSE /\ UNCHANGED <<inventory, blob, writeFailures>>
               /\ out' = <<>>
               /\ lastOp' = Op("remove", id, 0, FALSE, 0)
    /\ UNCHANGED <<phase, storageAvailable, others, pendingImport, fetchSt, fetchLog, syncSt, sent, exportFile>>

\* clearInventory()
clearInventory(w) ==
    /\ phase = "running"
    /\ inventory' = <<>>
    /\ saveInventory(<<>>, w)
    /\ out' = SaveOut(<<>>, w) \o <<Toast("info", <<"All inventory data cleared">>)>>
    /\ lastOp' = Op("clear", "", 0, TRUE, 0)
    /\ UNCHANGED <<phase, storageAvailable, others, pendingImport, fetchSt, fetchLog, syncSt, sent, exportFile>>

(***************************************************************************)
(* Import                                                                  *)
(***************************************************************************)
\* files the user may pick: unparsable, valid JSON that is no array, arrays
\* of item objects with and without id / createdAt
ImportDocs ==
    { CorruptDoc, OtherDoc,
      Doc("array", <<>>),
      Doc("array", << <<"mh3k2a9x0q1z7", "bolt", 1, Null, "2026-01-05T10:00:00.000Z">> >>),
      Doc("array", << <<Absent, "bolt", 1, Null, Absent>>,
                      <<Absent, "bolt", 1, Null, "2026-01-05T10:00:00.000Z">> >>) }

\* (mutant) whatever parses is taken
IsParsed(doc) == doc.kind # "corrupt"

\* Array.isArray(JSON.parse(text))
IsArray(doc) == doc.kind = "array"

\* importInventory's reader.onload: parse the file, reject what is no array,
\* otherwise raise the confirmation modal
importInventory(doc) ==
    /\ phase = "running"
    /\ pendingImport.kind = "absent"
    /\ IF IsArray(doc)
       THEN /\ pendingImport' = doc
            /\ out' = <<Confirm("Import Inventory",
                          <<"This will add ", ToString(Len(doc.elems)),
                            " items to your inventory. Continue?">>)>>
       ELSE /\ pendingImport' = pendingImport
            /\ out' = <<Toast("error",
                          <<"Error importing inventory data: ",
                            IF doc.kind = "other" THEN "Invalid inventory data format"
                            ELSE "Unexpected token in JSON">>)>>
    /\ lastOp' = Op("import", doc.kind, 0, IsArray(doc), 0)
    /\ UNCHANGED <<phase, inventory, storageAvailable, blob, others, writeFailures, fetchSt, fetchLog, syncSt, sent, exportFile>>

\* (mutant) every imported item gets a generated id
BackfilledAlways(doc, ids, times) ==
    [i \in 1..Len(doc.elems) |->
        LET item == ParseItem(doc.elems[i])
        IN [item EXCEPT !.id = ids[i],
                        !.createdAt = IF item.createdAt = Absent THEN times[i]
                                      ELSE item.createdAt]]

\* the items the confirm callback pushes: ids[i] and times[i] are what
\* generateId() and new Date().toISOString() return for item i if called
Backfilled(doc, ids, times) ==
    [i \in 1..Len(doc.elems) |->
        LET item == ParseItem(doc.elems[i])
        IN [item EXCEPT !.id = IF item.id = Absent THEN ids[i] ELSE item.id,
                        !.createdAt = IF item.createdAt = Absent THEN times[i]
                                      ELSE item.createdAt]]

\* the onConfirm callback of the import modal (the collection stays within
\* MaxItems, or within twice MaxItems when the file holds the collection itself)
importConfirm(ids, times, w) ==
    /\ phase = "running"
    /\ pendingImport.kind = "array"
    /\ \/ Len(inventory) + Len(pendingImport.elems) <= MaxItems
       \/ Len(inventory) <= MaxItems /\ pendingImport = Stringify(inventory)
    /\ LET inv == inventory \o Backfilled(pendingImport, ids, times)
       IN /\ inventory' = inv
          /\ saveInventory(inv, w)
          /\ out' = SaveOut(inv, w)
                      \o <<Toast("success", <<"Imported ", ToString(Len(pendingImport.elems)),
                                              " items successfully">>)>>
    /\ pendingImport' = AbsentDoc
    /\ lastOp' = Op("importConfirm", "", 0, TRUE, 0)
    /\ UNCHANGED <<phase, storageAvailable, others, fetchSt, fetchLog, syncSt, sent, exportFile>>

\* the Cancel button of the import modal
importCancel ==
    /\ phase = "running"
    /\ pendingImport.kind = "array"
    /\ pendingImport' = AbsentDoc
    /\ out' = <<>>
    /\ lastOp' = Op("importCancel", "", 0, FALSE, 0)
    /\ UNCHANGED <<phase, inventory, storageAvailable, blob, others, writeFailures, fetchSt, fetchLog, syncSt, sent, exportFile>>

(***************************************************************************)
(* Export                                                                  *)
(***************************************************************************)
\* JSON.stringify(inventory, null, 2): the text of Stringify with line breaks
\* and indentation, which JSON.parse skips
StringifyPretty(inv) == Stringify(inv)

\* exportInventory(): nothing to export, or the download of the pretty
\* printed collection (the data URI decodes to the text that was encoded)
exportInventory ==
    /\ phase = "running"
    /\ IF Len(inventory) = 0
       THEN /\ exportFile' = exportFile
            /\ out' = <<Toast("warning", <<"No inventory data to export">>)>>
       ELSE /\ exportFile' = StringifyPretty(inventory)
            /\ out' = <<Toast("success", <<"Inventory exported successfully">>)>>
    /\ lastOp' = Op("export", "", 0, Len(inventory) # 0, 0)
    /\ UNCHANGED <<phase, inventory, storageAvailable, blob, others, writeFailures,
                   pendingImport, fetchSt, fetchLog, syncSt, sent>>

(***************************************************************************)
(* Sync coordinator                                                        *)
(***************************************************************************)
\* the toast of the catch block of syncWithCloud
SyncFailed(message) == Toast("error", <<"Cloud sync failed: ">> \o message)

\* (mutant) every attempt serializes the collection as it is by then
RequestBodyLive(options, inv) == Stringify(inv)

\* the body fetch(url, options) sends: options.body, the text syncWithCloud
\* built before it called fetchWithRetry, whatever the collection is by now
RequestBody(options, inv) == options

\* syncWithCloud() up to the first await inside fetchWithRetry; one sync is
\* in flight at a time
syncWithCloud ==
    /\ phase = "running"
    /\ syncSt.pc = "idle"
    /\ LET c == FetchStart(MAX_RETRIES)
       IN /\ fetchSt' = c.st
          /\ fetchLog' = c.log
    /\ syncSt' = SyncState("fetching", Stringify(inventory))
    /\ sent' = <<RequestBody(Stringify(inventory), inventory)>>
    /\ out' = <<Toast("info", <<"Syncing with cloud...">>)>>
    /\ lastOp' = Op("sync", "", 0, TRUE, 0)
    /\ UNCHANGED storeVars

\* (mutant) every failed attempt is shown to the user
AttemptNoticeToast(attempt, message) ==
    <<Toast("warning", <<"Attempt ", ToString(attempt + 1), " failed: ">> \o message)>>

\* what the catch block of fetchWithRetry tells the user about a failed
\* attempt: console.warn writes to the console, nothing reaches the UI
AttemptNotice(attempt, message) == <<>>

\* the fetch of the sync settles; a returned response goes on to response.json()
syncFetchSettled(o) ==
    /\ syncSt.pc = "fetching"
    /\ fetchSt.pc = "fetch"
    /\ LET c == FetchSettled(fetchSt, fetchLog, o)
       IN /\ fetchSt' = c.st
          /\ fetchLog' = c.log
          /\ syncSt' = IF c.st.pc = "returned" THEN SyncState("json", syncSt.body) ELSE syncSt
          /\ out' = IF c.st.pc = "returned" THEN <<>>
                    ELSE AttemptNotice(fetchSt.attempt, AttemptError(o))
    /\ sent' = sent
    /\ lastOp' = Op("syncFetch", "", 0, ResponseOk(o.status), 0)
    /\ UNCHANGED storeVars

\* the backoff timer of the sync fires; when fetchWithRetry throws, the catch
\* block of syncWithCloud reports it and the call ends
syncDelayElapsed ==
    /\ syncSt.pc = "fetching"
    /\ fetchSt.pc = "delay"
    /\ LET c == FetchResumed(fetchSt, fetchLog)
       IN IF c.st.pc = "thrown"
          THEN /\ fetchSt' = NoFetch
               /\ fetchLog' = <<>>
               /\ syncSt' = SyncIdle
               /\ sent' = <<>>
               /\ out' = <<SyncFailed(c.st.error)>>
               /\ lastOp' = Op("syncDone", "", 0, FALSE, 0)
          ELSE /\ fetchSt' = c.st
               /\ fetchLog' = c.log
               /\ syncSt' = syncSt
               /\ sent' = Append(sent, RequestBody(syncSt.body, inventory))
               /\ out' = <<>>
               /\ lastOp' = Op("syncRetry", "", 0, FALSE, 0)
    /\ UNCHANGED storeVars

\* (mutant) only an explicit success: false is a failure
SyncOutcomeLenient(body) ==
    IF ~body.valid THEN SyncFailed(<<"Unexpected token in JSON">>)
    ELSE IF body.success # "false" THEN Toast("success", <<"Cloud sync successful!">>)
    ELSE SyncFailed(<<IF body.message # "" THEN body.message ELSE "Unknown error">>)

\* the notification syncWithCloud ends with once response.json() has settled
SyncOutcome(body) ==
    IF ~body.valid THEN SyncFailed(<<"Unexpected token in JSON">>)
    ELSE IF body.success = "true" THEN Toast("success", <<"Cloud sync successful!">>)
    ELSE SyncFailed(<<IF body.message # "" THEN body.message ELSE "Unknown error">>)

\* response.json() settles
syncDecoded ==
    /\ syncSt.pc = "json"
    /\ out' = <<SyncOutcome(fetchSt.response.body)>>
    /\ lastOp' = Op("syncDone", "", 0, TRUE, 0)
    /\ fetchSt' = NoFetch
    /\ fetchLog' = <<>>
    /\ syncSt' = SyncIdle
    /\ sent' = <<>>
    /\ UNCHANGED storeVars

(***************************************************************************)
(* fetchWithRetry called on its own, with any maxRetries                   *)
(***************************************************************************)
fetchWithRetry(maxRetries) ==
    /\ fetchSt.pc \in {"none", "returned", "thrown"}
    /\ LET c == FetchStart(maxRetries)
       IN /\ fetchSt' = c.st
          /\ fetchLog' = c.log
    /\ UNCHANGED <<storeVars, lastOp, out, syncSt, sent>>

fetchSettled(o) ==
    /\ fetchSt.pc = "fetch"
    /\ LET c == FetchSettled(fetchSt, fetchLog, o)
       IN /\ fetchSt' = c.st
          /\ fetchLog' = c.log
    /\ UNCHANGED <<storeVars, lastOp, out, syncSt, sent>>

delayElapsed ==
    /\ fetchSt.pc = "delay"
    /\ LET c == FetchResumed(fetchSt, fetchLog)
       IN /\ fetchSt' = c.st
          /\ fetchLog' = c.log
    /\ UNCHANGED <<storeVars, lastOp, out, syncSt, sent>>

(***************************************************************************)
(* Specifications                                                          *)
(***************************************************************************)
\* quantities the add form delivers (parseInt accepts a sign) and arguments
\* of updateItemQuantity: the buttons pass 1 and -1, the contract any integer
AddQuantities == {-1, 0, 1}
WideQuantities == {-1, 0, 5}
ButtonDeltas == {-1, 1}
Deltas == {-999999, -1, 1}
\* ids a handler may be called with: generated ones and one no item has
LookupIds == GenIds \cup {"unknown"}

\* the session starts with nothing stored that loads as items or stops the
\* startup, and with no other key in the store
InitEmpty ==
    Init /\ (blob.kind = "array" => blob.elems = <<>>) /\ blob.kind # "other" /\ others = 0

\* add, adjustQuantity and remove alone, on a collection that starts empty
\* and a store that takes every write
CollectionNext ==
    \/ \E probe \in BOOLEAN : Startup(probe)
    \/ \E n \in Names, q \in WideQuantities, id \in GenIds, t \in Times :
          Add(n, q, Null, id, t, "ok")
    \/ \E id \in LookupIds, d \in Deltas : updateItemQuantity(id, d, "ok")
    \/ \E id \in LookupIds : deleteItem(id, "ok")

SpecCollection == InitEmpty /\ [][CollectionNext]_vars

\* every handler of the collection store and the durable store, for the
\* quantities and deltas given
StoreOps(quantities, deltas) ==
    \/ \E probe \in BOOLEAN : Startup(probe)
    \/ \E n \in Names, q \in quantities, id \in GenIds, t \in Times, w \in WriteResults :
          Add(n, q, Null, id, t, w)
    \/ AddInvalid
    \/ AddImageError("Please select a valid image file")
    \/ \E id \in LookupIds, d \in deltas, w \in WriteResults : updateItemQuantity(id, d, w)
    \/ \E id \in LookupIds, w \in WriteResults : deleteItem(id, w)
    \/ \E w \in WriteResults : clearInventory(w)
    \/ \E doc \in ImportDocs : importInventory(doc)
    \/ \E ids \in [1..Len(pendingImport.elems) -> GenIds],
          times \in [1..Len(pendingImport.elems) -> Times], w \in WriteResults :
          importConfirm(ids, times, w)
    \/ importCancel

StoreNext == StoreOps(AddQuantities, ButtonDeltas)

\* the store handlers with writes that may fail, items added with quantity 1
\* and the decrement button
PersistNext == StoreOps({1}, {-1})

InitStore == Init /\ others = 0

SpecStore == InitStore /\ [][PersistNext]_vars

\* the sync coordinator and the fetch it drives
SyncNext ==
    \/ syncWithCloud
    \/ \E o \in FetchOutcomes : syncFetchSettled(o)
    \/ syncDelayElapsed
    \/ syncDecoded

\* fetchWithRetry on its own
FetchNext ==
    \/ \E m \in 0..MaxAttempts : fetchWithRetry(m)
    \/ \E o \in FetchOutcomes : fetchSettled(o)
    \/ delayElapsed

SpecFetch == Init /\ [][FetchNext]_vars

\* the sync next to handlers that change the collection while it runs, in a
\* session that starts with nothing stored
SyncAndEditNext ==
    \/ \E probe \in BOOLEAN : Startup(probe)
    \/ \E n \in Names, id \in GenIds, t \in Times : Add(n, 1, Null, id, t, "ok")
    \/ \E id \in LookupIds : deleteItem(id, "ok")
    \/ SyncNext

InitSync == Init /\ blob = AbsentDoc /\ others = 0

SpecSync == InitSync /\ [][SyncAndEditNext]_vars

\* the same session when the event loop keeps running: a pending fetch
\* settles, a backoff timer fires and response.json() settles in the end
SpecSyncFair == SpecSync /\ WF_vars(SyncNext)

\* export and import next to add and remove (of the items under one of the
\* ids), in a session that starts with nothing stored and a store that takes
\* every write; the exported file is one of the files the user may pick
ImportNext ==
    \/ \E probe \in BOOLEAN : Startup(probe)
    \/ \E n \in Names, id \in GenIds, t \in Times : Add(n, 1, Null, id, t, "ok")
    \/ deleteItem("mh3k2a9x0q1z7", "ok")
    \/ exportInventory
    \/ \E doc \in ImportDocs \cup ({exportFile} \ {AbsentDoc}) : importInventory(doc)
    \/ \E ids \in [1..Len(pendingImport.elems) -> GenIds],
          times \in [1..Len(pendingImport.elems) -> Times] :
          importConfirm(ids, times, "ok")
    \/ importCancel

SpecImport == InitSync /\ [][ImportNext]_vars

\* the handlers that recompute the usage, in sessions that start from any
\* stored text and any filling of the store by other keys
CapacityNext ==
    \/ \E probe \in BOOLEAN : Startup(probe)
    \/ \E n \in Names, id \in GenIds, t \in Times : Add(n, 1, Null, id, t, "ok")
    \/ \E id \in LookupIds, d \in ButtonDeltas : updateItemQuantity(id, d, "ok")
    \/ \E id \in LookupIds : deleteItem(id, "ok")
    \/ clearInventory("ok")
    \/ \E doc \in ImportDocs : importInventory(doc)
    \/ \E ids \in [1..Len(pendingImport.elems) -> GenIds],
          times \in [1..Len(pendingImport.elems) -> Times] :
          importConfirm(ids, times, "ok")
    \/ importCancel

SpecCapacity == Init /\ [][CapacityNext]_vars

\* what the endpoint answers in the sessions below: an accepted sync, or a
\* status 500
RetryOutcomes ==
    { FetchOutcome(200, <<>>, Body(TRUE, "true", "")), FetchOutcome(500, <<>>, NoBody) }

\* the file imported in the sessions below: one item that has its id
SnapshotDocs ==
    { Doc("array", << <<"mh3k2a9x4c8ve", "bolt", 1, Null, "2026-01-05T10:00:00.000Z">> >>) }

\* every handler that changes the collection, next to a sync that may be
\* suspended in a fetch or in a backoff wait while they run; storage is
\* available and items are added under one id
SnapshotNext ==
    \/ Startup(TRUE)
    \/ \E n \in Names, t \in Times : Add(n, 1, Null, "mh3k2a9x0q1z7", t, "ok")
    \/ \E id \in GenIds : updateItemQuantity(id, -1, "ok")
    \/ \E id \in GenIds : deleteItem(id, "ok")
    \/ clearInventory("ok")
    \/ \E doc \in SnapshotDocs : importInventory(doc)
    \/ \E ids \in [1..Len(pendingImport.elems) -> {"mh3k2a9x0q1z7"}],
          times \in [1..Len(pendingImport.elems) -> Times] :
          importConfirm(ids, times, "ok")
    \/ importCancel
    \/ syncWithCloud
    \/ \E o \in RetryOutcomes : syncFetchSettled(o)
    \/ syncDelayElapsed
    \/ syncDecoded

SpecSnapshot == InitSync /\ [][SnapshotNext]_vars

\* the whole program
Next == StoreNext \/ SyncNext

Spec == Init /\ [][Next]_vars

(***************************************************************************)
(* Properties                                                              *)
(***************************************************************************)
\* the events of one sink and kind among those of the last handler
HasEvent(events, sink, kind) ==
    \E i \in 1..Len(events) : events[i][1] = sink /\ events[i][2] = kind

WriteAttempted(events) == \E i \in 1..Len(events) : events[i][1] = "setItem"
WriteFailed(events) == HasEvent(events, "setItem", "quota") \/ HasEvent(events, "setItem", "error")

\* inv2 is inv1 with item k removed and nothing else touched
RemovedAt(inv1, inv2, k) ==
    /\ Len(inv2) = Len(inv1) - 1
    /\ \A j \in 1..Len(inv2) : inv2[j] = IF j < k THEN inv1[j] ELSE inv1[j + 1]

\* inv2 is inv1 with only the quantity of item k changed, to q
QuantitySetAt(inv1, inv2, k, q) ==
    /\ Len(inv2) = Len(inv1)
    /\ inv2[k].quantity = q
    /\ inv2[k].id = inv1[k].id
    /\ inv2[k].name = inv1[k].name
    /\ inv2[k].image = inv1[k].image
    /\ inv2[k].createdAt = inv1[k].createdAt
    /\ \A j \in 1..Len(inv1) : j # k => inv2[j] = inv1[j]

\* C1 (as claimed): after any sequence of add, adjustQuantity and remove on a
\* collection that started empty, every item has a quantity >= 0.
C1_QuantityNeverNegative ==
    \A i \in 1..Len(inventory) : inventory[i].quantity >= 0

\* C2: adjustQuantity(id, delta) leaves the collection and the stored blob
\* alone when no item has the id; otherwise one item with that id gets the
\* quantity max(0, current + delta) and nothing else changes.
C2_AdjustQuantity ==
    [][lastOp'.op = "adjust" =>
         LET id == lastOp'.id
             delta == lastOp'.delta
         IN IF \A i \in 1..Len(inventory) : inventory[i].id # id
            THEN inventory' = inventory /\ blob' = blob
            ELSE \E k \in 1..Len(inventory) :
                    /\ inventory[k].id = id
                    /\ QuantitySetAt(inventory, inventory', k,
                                     IF inventory[k].quantity + delta > 0
                                     THEN inventory[k].quantity + delta ELSE 0)
      ]_vars

\* C2 witness: delta -999999 on an item of quantity 5 has given quantity 0
C2_Witness ==
    /\ lastOp = Op("adjust", lastOp.id, -999999, TRUE, 5)
    /\ \E i \in 1..Len(inventory) : inventory[i].id = lastOp.id /\ inventory[i].quantity = 0
    /\ Len(inventory) = 2

\* C3: remove(id) of an id no item has leaves the collection as it is and
\* writes nothing; remove(id) of a present id takes out exactly one item with
\* that id and leaves the others as they are, in order.
C3_Remove ==
    [][lastOp'.op = "remove" =>
         LET id == lastOp'.id
         IN IF \A i \in 1..Len(inventory) : inventory[i].id # id
            THEN inventory' = inventory /\ blob' = blob /\ ~WriteAttempted(out')
            ELSE \E k \in 1..Len(inventory) :
                    inventory[k].id = id /\ RemovedAt(inventory, inventory', k)
      ]_vars

\* C3 witness: one of two items sharing an id has been removed, the other stays
C3_Witness ==
    /\ lastOp.op = "remove"
    /\ lastOp.found
    /\ Len(inventory) = 1
    /\ inventory[1].id = lastOp.id

\* the last handler was one that changes the collection
IsMutation(op) ==
    \/ op.op \in {"add", "clear", "importConfirm"}
    \/ op.op \in {"adjust", "remove"} /\ op.found

\* C4: with storage probed available and the write succeeding, after every
\* completed mutation the stored blob is the serialization of the whole
\* collection in memory.
C4_PersistAfterMutation ==
    (phase = "running" /\ storageAvailable /\ IsMutation(lastOp) /\ ~WriteFailed(out))
        => blob = Stringify(inventory)

\* C4 witness: an import has just been persisted in full, after an earlier
\* write had failed
C4_Witness ==
    /\ lastOp.op = "importConfirm"
    /\ storageAvailable
    /\ writeFailures = 1
    /\ ~WriteFailed(out)
    /\ Len(inventory) = 2
    /\ blob = Stringify(inventory)

\* the handler named by op has turned inv1 into inv2
MutationApplied(op, inv1, inv2, pending) ==
    \/ /\ op.op = "add"
       /\ Len(inv2) = Len(inv1) + 1
       /\ SubSeq(inv2, 1, Len(inv1)) = inv1
       /\ inv2[Len(inv2)].id = op.id
       /\ inv2[Len(inv2)].quantity = op.delta
    \/ /\ op.op = "adjust"
       /\ \E k \in 1..Len(inv1) :
             /\ inv1[k].id = op.id
             /\ QuantitySetAt(inv1, inv2, k, IF inv1[k].quantity + op.delta > 0
                                            THEN inv1[k].quantity + op.delta ELSE 0)
    \/ /\ op.op = "remove"
       /\ \E k \in 1..Len(inv1) : inv1[k].id = op.id /\ RemovedAt(inv1, inv2, k)
    \/ /\ op.op = "clear"
       /\ inv2 = <<>>
    \/ /\ op.op = "importConfirm"
       /\ Len(inv2) = Len(inv1) + Len(pending.elems)
       /\ SubSeq(inv2, 1, Len(inv1)) = inv1

\* the handler named by op ran to its last statement
RanToEnd(op, events) ==
    /\ op.op = "add" => events[Len(events)] = Toast("success", <<"Item added successfully">>)
    /\ op.op = "remove" => events[Len(events)] = Toast("info", <<"Item deleted">>)
    /\ op.op = "clear" => events[Len(events)] = Toast("info", <<"All inventory data cleared">>)
    /\ op.op = "importConfirm" => events[Len(events)][2] = "success"

\* C5: when a save fails, with a quota error or another one, the handler
\* still runs to its end, its mutation stays in memory, the stored blob keeps
\* its content and the failure is reported on the storage status.
C5_SaveFailure ==
    [][WriteFailed(out') =>
         /\ blob' = blob
         /\ MutationApplied(lastOp', inventory, inventory', pendingImport)
         /\ RanToEnd(lastOp', out')
         /\ \E i \in 1..Len(out') :
               out'[i] = IF HasEvent(out', "setItem", "quota")
                         THEN Status(FALSE, "Storage quota exceeded")
                         ELSE Status(FALSE, "Error saving data")
      ]_vars

\* C5 witness: an add whose write failed with an error that is no quota error
C5_Witness ==
    /\ HasEvent(out, "setItem", "error")
    /\ lastOp.op = "add"
    /\ Len(inventory) = 1
    /\ blob = AbsentDoc

(***************************************************************************)
(* Properties of fetchWithRetry                                            *)
(***************************************************************************)
Requests(log) == Cardinality({i \in 1..Len(log) : log[i].e = "request"})

\* the backoff waits of the call, in order, in milliseconds
WaitTimes(log) ==
    LET w == SelectSeq(log, LAMBDA ev : ev.e = "wait")
    IN [i \in 1..Len(w) |-> w[i].n]

\* what happened, in order
Shape(log) == [i \in 1..Len(log) |-> log[i].e]

SettledOk(ev) == ev.e = "settle" /\ ResponseOk(ev.n)
SettledBad(ev) == ev.e = "settle" /\ ~ResponseOk(ev.n)

\* the outcome of the last request that has settled
LastSettle(log) ==
    LET idx == {i \in 1..Len(log) : log[i].e = "settle"}
    IN log[CHOOSE i \in idx : \A j \in idx : j <= i]

\* C6: one call issues at most maxAttempts requests; it returns the first
\* response with a success status and requests nothing after it; a
\* non-success status and a thrown error both count as a failed attempt; when
\* all maxAttempts requests have failed the call fails with an error that
\* embeds maxAttempts and the message of the last failure.
C6_AtMostMaxAttempts ==
    /\ Requests(fetchLog) <= fetchSt.maxRetries
    /\ \A i \in 1..Len(fetchLog) :
          /\ SettledOk(fetchLog[i]) =>
                i = Len(fetchLog) /\ fetchSt.pc = "returned"
                    /\ fetchSt.response.status = fetchLog[i].n
          /\ SettledBad(fetchLog[i]) =>
                fetchLog[i].msg # <<>> /\ i < Len(fetchLog) /\ fetchLog[i + 1].e = "wait"
    /\ fetchSt.pc = "returned" => fetchLog # <<>> /\ SettledOk(fetchLog[Len(fetchLog)])
    /\ fetchSt.pc = "thrown" =>
          /\ Requests(fetchLog) = fetchSt.maxRetries
          /\ fetchSt.maxRetries >= 1 =>
                fetchSt.error = <<"Failed after ", ToString(fetchSt.maxRetries), " attempts: ">>
                                    \o LastSettle(fetchLog).msg

\* C6 witness: three requests have failed, the last with a status 500
C6_Witness ==
    /\ fetchSt.pc = "thrown"
    /\ fetchSt.maxRetries = 3
    /\ Requests(fetchLog) = 3
    /\ fetchSt.error = <<"Failed after ", "3", " attempts: ", "HTTP error! Status: ", "500">>

\* C7 (as claimed): the wait right before attempt k >= 1 is min(2^k * 100, 2000) ms.
C7_DelayBeforeAttemptAsClaimed ==
    \A i \in 2..Len(fetchLog) :
        fetchLog[i].e = "request" =>
            /\ fetchLog[i - 1].e = "wait"
            /\ fetchLog[i - 1].n = Min(Pow2(fetchLog[i].n) * 100, 2000)

\* C7 (amended): the wait right before attempt k >= 1 is
\* min(2^(k-1) * 100, 2000) ms, the same on every run.
C7_DelayBeforeAttempt ==
    \A i \in 2..Len(fetchLog) :
        fetchLog[i].e = "request" =>
            /\ fetchLog[i].n >= 1
            /\ fetchLog[i - 1].e = "wait"
            /\ fetchLog[i - 1].n = Min(Pow2(fetchLog[i].n - 1) * 100, 2000)

\* C7 witness: attempt 6 has been issued after a wait at the 2000 ms cap
C7_Witness ==
    \E i \in 2..Len(fetchLog) :
        fetchLog[i].e = "request" /\ fetchLog[i].n = 6 /\ fetchLog[i - 1].n = 2000

\* C8 (as claimed): with maxAttempts = 3 and every request failing, the call
\* waits exactly twice, 100 ms then 200 ms, and fails with the count 3.
C8_TwoWaitsThenFail ==
    (fetchSt.pc = "thrown" /\ fetchSt.maxRetries = 3) =>
        /\ WaitTimes(fetchLog) = <<100, 200>>
        /\ SubSeq(fetchSt.error, 1, 3) = <<"Failed after ", "3", " attempts: ">>

\* C9: when the first two requests fail and the third succeeds, the call
\* returns the third response after request, wait 100, request, wait 200,
\* request.
C9_FailTwiceThenSucceed ==
    (fetchSt.pc = "returned" /\ Requests(fetchLog) = 3) =>
        /\ Shape(fetchLog) = <<"request", "settle", "wait", "request", "settle", "wait",
                               "request", "settle">>
        /\ SettledBad(fetchLog[2])
        /\ SettledBad(fetchLog[5])
        /\ WaitTimes(fetchLog) = <<100, 200>>
        /\ fetchSt.response.status = fetchLog[8].n
        /\ ResponseOk(fetchSt.response.status)

\* C9 witness: a status 500, a rejected fetch, then a response 200
C9_Witness ==
    /\ fetchSt.pc = "returned"
    /\ Requests(fetchLog) = 3
    /\ fetchLog[2].n = 500
    /\ fetchLog[5].n = 0
    /\ fetchSt.response.status = 200

(***************************************************************************)
(* Properties of syncWithCloud                                             *)
(***************************************************************************)
\* C10: a sync reports success exactly when fetchWithRetry returned a
\* response whose decoded body has success true; with success false or
\* absent it reports a failure with the server's message, or "Unknown error"
\* when there is none; when the retries are exhausted it reports a failure
\* with the error of fetchWithRetry.
C10_SyncOutcome ==
    [][(syncSt.pc # "idle" /\ syncSt'.pc = "idle") =>
         LET body == fetchSt.response.body
             returned == fetchSt.pc = "returned"
         IN /\ Len(out') = 1
            /\ out'[1] = Toast("success", <<"Cloud sync successful!">>)
                  <=> (returned /\ body.valid /\ body.success = "true")
            /\ (returned /\ body.valid /\ body.success \in {"false", "absent"}) =>
                  out'[1] = Toast("error",
                              <<"Cloud sync failed: ",
                                IF body.message # "" THEN body.message ELSE "Unknown error">>)
            /\ ~returned =>
                  out'[1] = Toast("error",
                              <<"Cloud sync failed: ", "Failed after ", ToString(MAX_RETRIES), " attempts: ">>
                                  \o fetchSt.lastError)
      ]_vars

\* C10 witness: a body without a success field and without a message has been
\* reported with the fallback
C10_Witness ==
    /\ lastOp = Op("syncDone", "", 0, TRUE, 0)
    /\ out = <<Toast("error", <<"Cloud sync failed: ", "Unknown error">>)>>
    /\ syncSt.pc = "idle"

\* the step belongs to syncWithCloud or to the fetchWithRetry call it awaits
SyncStep == syncSt' # syncSt \/ fetchSt' # fetchSt

\* C11: a sync first sends the begin notification, sends nothing while its
\* attempts fail and are retried, and ends with exactly one notification,
\* a success or a failure; none of its steps changes the collection in
\* memory or the stored blob; and a sync that has begun does end.
C11_OneTerminalNotification ==
    /\ [][SyncStep =>
            /\ inventory' = inventory
            /\ blob' = blob
            /\ IF syncSt.pc = "idle"
               THEN /\ out' = <<Toast("info", <<"Syncing with cloud...">>)>>
                    /\ syncSt'.pc # "idle"
               ELSE IF syncSt'.pc = "idle"
               THEN /\ Len(out') = 1
                    /\ out'[1][1] = "toast"
                    /\ out'[1][2] \in {"success", "error"}
               ELSE out' = <<>>
         ]_vars
    /\ (syncSt.pc # "idle") ~> (syncSt.pc = "idle")

\* C11 witness: a sync of a collection of one item has ended with a failure
\* after its three attempts failed
C11_Witness ==
    /\ lastOp = Op("syncDone", "", 0, FALSE, 0)
    /\ Len(out) = 1
    /\ out[1][2] = "error"
    /\ Len(inventory) = 1
    /\ blob = Stringify(inventory)
    /\ syncSt.pc = "idle"

(***************************************************************************)
(* Properties of the capacity monitor                                      *)
(***************************************************************************)
\* the last handler recomputed the usage: the startup with storage, or a
\* handler whose save wrote the blob
Recomputed ==
    /\ phase = "running"
    /\ storageAvailable
    /\ lastOp.op = "load" \/ HasEvent(out, "setItem", "ok")

\* 2 bytes for every character of every key and value now in the store
UsedBytes ==
    2 * (others + (IF blob.kind = "absent" THEN 0 ELSE Len("stockInventory") + DocChars(blob)))

Warnings(events) ==
    Cardinality({i \in 1..Len(events) : events[i][1] = "toast" /\ events[i][2] = "warning"})

\* C12: every recomputation of the usage sends one warning when
\* used / (5 MiB) * 100 is above 85, whatever was sent before, and none when
\* it is 85 or below; a handler that does not recompute sends none; used =
\* 4.5 MiB warns.
C12_WarnAbove85 ==
    /\ Recomputed => Warnings(out) = IF UsedBytes * 100 > 85 * (5 * 1024 * 1024) THEN 1 ELSE 0
    /\ ~Recomputed => Warnings(out) = 0
    /\ (Recomputed /\ 2 * UsedBytes = 9 * 1024 * 1024) => Warnings(out) = 1

\* C12 witness: with 4.5 MiB in use at startup (which warned), a decrement
\* that keeps the usage at 4.5 MiB has warned again
C12_Witness ==
    /\ lastOp = Op("adjust", lastOp.id, -1, TRUE, 1)
    /\ HasEvent(out, "setItem", "ok")
    /\ 2 * UsedBytes = 9 * 1024 * 1024
    /\ Warnings(out) = 1

\* C17: when the probe fails, the startup still completes, with the empty
\* collection; from then on storage stays unavailable, every mutation is
\* applied in memory, no handler calls setItem, the stored blob stays as it
\* was, the usage is reported as 0 and no warning is sent, however full the
\* store is.
C17_MemoryOnly ==
    /\ [][(phase = "boot" /\ phase' # "boot" /\ ~storageAvailable') =>
            phase' = "running" /\ inventory' = <<>>
         ]_vars
    /\ [][(phase = "running" /\ ~storageAvailable) => ~storageAvailable']_vars
    /\ [][(phase' = "running" /\ ~storageAvailable') =>
            /\ ~WriteAttempted(out')
            /\ blob' = blob
            /\ Warnings(out') = 0
            /\ Used(storageAvailable', blob', others') = 0
            /\ IsMutation(lastOp') =>
                  MutationApplied(lastOp', inventory, inventory', pendingImport)
         ]_vars

\* C17 witness: without storage, in a store filled to 4.5 MiB, an import of
\* two items has been applied in memory while the stored blob still holds
\* its one item
C17_Witness ==
    /\ phase = "running"
    /\ ~storageAvailable
    /\ lastOp.op = "importConfirm"
    /\ Len(inventory) = 2
    /\ blob.kind = "array"
    /\ Len(blob.elems) = 1
    /\ others = 2359179
    /\ out = <<Toast("success", <<"Imported ", "2", " items successfully">>)>>

(***************************************************************************)
(* Properties of the startup load                                          *)
(***************************************************************************)
\* C16 (as claimed): the startup completes whatever is stored; it leaves in
\* memory what the stored text parses to when there is one that can be read
\* and parsed, and the empty collection otherwise; afterwards the collection
\* only changes by the mutation of the handler that runs, never by a copy of
\* what is stored.
C16_StartupLoad ==
    /\ [][(phase = "boot" /\ phase' # "boot") =>
            /\ phase' = "running"
            /\ inventory' = IF storageAvailable' /\ blob.kind = "array" THEN ParseArray(blob)
                            ELSE IF storageAvailable' /\ blob.kind = "other" THEN NonArray
                            ELSE <<>>
         ]_vars
    /\ [][phase = "running" =>
            \/ inventory' = inventory
            \/ /\ IsMutation(lastOp')
               /\ MutationApplied(lastOp', inventory, inventory', pendingImport)
         ]_vars

(***************************************************************************)
(* Properties of import and export                                         *)
(***************************************************************************)
\* C13: an import of a file that does not parse, or parses to something that
\* is no array, changes neither the collection nor the stored blob, raises
\* no confirmation prompt, leaves nothing to confirm later and sends an
\* error notification.
C13_RejectNonArray ==
    [][(lastOp'.op = "import" /\ lastOp'.id # "array") =>
          /\ inventory' = inventory
          /\ blob' = blob
          /\ pendingImport' = AbsentDoc
          /\ \A i \in 1..Len(out') : out'[i][1] # "confirm"
          /\ HasEvent(out', "toast", "error")
      ]_vars

\* C13 witness: a file holding valid JSON that is no array has been rejected
\* while the collection holds an item
C13_Witness ==
    /\ lastOp = Op("import", "other", 0, FALSE, 0)
    /\ out = <<Toast("error", <<"Error importing inventory data: ",
                                "Invalid inventory data format">>)>>
    /\ Len(inventory) = 1
    /\ pendingImport = AbsentDoc

\* C14 (as claimed): a confirmed import appends the incoming items in batch
\* order behind the unchanged existing items; an item that came with an id
\* keeps it; an item that came without one gets an id that no other item of
\* the batch and no item already in the collection has.
C14_ImportMergeFreshIds ==
    [][lastOp'.op = "importConfirm" =>
          LET n == Len(inventory)
              batch == pendingImport.elems
              m == Len(batch)
          IN /\ Len(inventory') = n + m
             /\ \A k \in 1..n : inventory'[k] = inventory[k]
             /\ \A i \in 1..m :
                   /\ inventory'[n + i].name = batch[i][2]
                   /\ inventory'[n + i].quantity = batch[i][3]
                   /\ inventory'[n + i].image = batch[i][4]
                   /\ batch[i][1] # Absent => inventory'[n + i].id = batch[i][1]
                   /\ batch[i][1] = Absent =>
                         /\ inventory'[n + i].id # Absent
                         /\ \A j \in 1..m : j # i => inventory'[n + j].id # inventory'[n + i].id
                         /\ \A k \in 1..n : inventory[k].id # inventory'[n + i].id
      ]_vars

\* the records of a collection, as a set
RecordSet(inv) == {inv[i] : i \in 1..Len(inv)}

\* C15: when the file of an export is imported and confirmed while the
\* collection is still the exported one, the set of records afterwards is
\* the set before: no id or quantity is lost or changed and no new record
\* appears.
C15_ExportImportRoundTrip ==
    [][(/\ lastOp'.op = "importConfirm"
        /\ exportFile.kind = "array"
        /\ pendingImport = exportFile
        /\ Stringify(inventory) = exportFile) =>
          /\ RecordSet(inventory') = RecordSet(inventory)
          /\ {<<r.id, r.quantity>> : r \in RecordSet(inventory')}
                = {<<r.id, r.quantity>> : r \in RecordSet(inventory)}
      ]_vars

\* C15 witness: the export of a collection of two records with different ids
\* has been imported back; each record is there, twice
C15_Witness ==
    /\ lastOp.op = "importConfirm"
    /\ exportFile.kind = "array"
    /\ Len(exportFile.elems) = 2
    /\ exportFile.elems[1][1] # exportFile.elems[2][1]
    /\ inventory = ParseArray(exportFile) \o ParseArray(exportFile)
    /\ blob = Stringify(inventory)

(***************************************************************************)
(* Properties of the body a sync sends                                     *)
(***************************************************************************)
\* C18: the first request of a sync carries the serialization of the
\* collection as it is when syncWithCloud is called; every later request of
\* that sync carries the same text, one body per request, whatever add,
\* adjust, remove, clear or import has done to the collection meanwhile.
C18_SnapshotBody ==
    /\ [][(syncSt.pc = "idle" /\ syncSt'.pc # "idle") =>
            sent' = <<Stringify(inventory)>>
         ]_vars
    /\ [][(syncSt.pc # "idle" /\ syncSt'.pc # "idle") =>
            \/ sent' = sent
            \/ SyncStep /\ sent' = Append(sent, sent[1])
         ]_vars
    /\ [][syncSt'.pc # "idle" => Len(sent') = Requests(fetchLog')]_vars

\* C18 witness: the third request of a sync has gone out with the one item
\* the collection held at the call, while the collection now holds two
C18_Witness ==
    /\ syncSt.pc = "fetching"
    /\ fetchSt.pc = "fetch"
    /\ Len(sent) = 3
    /\ Len(sent[3].elems) = 1
    /\ Len(inventory) = 2
    /\ lastOp.op = "syncRetry"

====
